---- MODULE Spec2Model ----
(***************************************************************************)
(* Size/offset cache of a virtual scroller (src/core/cache.ts).            *)
(*                                                                         *)
(* The cache is one record with the fields of the Cache type.  JavaScript  *)
(* arrays are 0-based and TLA+ sequences are 1-based: the array entry at   *)
(* index i is the sequence entry at i + 1.                                 *)
(*                                                                         *)
(* Sizes are JavaScript numbers.  The model draws them from sets of        *)
(* integers of one parity, so that the mean of two measured sizes is an    *)
(* integer, and compares halves (h / 2) after doubling both sides.         *)
(***************************************************************************)
EXTENDS Integers, Sequences, FiniteSets, TLC

\* cache: the Cache object, the whole state of the program.
\* touched: a history of the caller's setSize calls, one flag per item in
\* index order: TRUE once setSize was called on the item.  The program does
\* not hold it and no operation reads it.
VARIABLES cache, touched

vars == <<cache, touched>>

\* ---------------------------------------------------------------- bounds

\* Largest collection length the caller asks for.
MaxLen == 3

\* Sizes the caller reports with setSize (one parity, see above).
Sizes == {2, 4}

\* Item sizes the caller guesses at construction.
InitSizes == {3}

\* Viewport sizes the caller passes to computeRange.
Viewports == {3}

\* Scroll offsets the caller passes to computeRange in a step of the model.
\* (The offsets a claim ranges over are stated in the claim.)
ScrollOffsets == {5}

\* prevStartIndex values the caller passes, stale ones (>= length) included.
PrevIndexes == 0 .. MaxLen

\* ------------------------------------------------------------- utilities

UNCACHED == 0 - 1

min(a, b) == IF a <= b THEN a ELSE b

max(a, b) == IF a >= b THEN a ELSE b

clamp(value, minValue, maxValue) == min(maxValue, max(minValue, value))

\* Array.prototype.sort with a numeric comparator: insertion into a sorted
\* sequence.
RECURSIVE insertSorted(_, _)
insertSorted(s, x) ==
  IF s = <<>> THEN <<x>>
  ELSE IF x <= Head(s) THEN <<x>> \o s
  ELSE <<Head(s)>> \o insertSorted(Tail(s), x)

RECURSIVE sort(_)
sort(s) == IF s = <<>> THEN <<>> ELSE insertSorted(sort(Tail(s)), Head(s))

\* The median of a non-empty array: the middle entry, or the mean of the two
\* middle entries (an integer here, the sizes having one parity).
median(arr) ==
  LET s == sort(arr)
      mid == Len(s) \div 2
  IN IF Len(s) % 2 = 0 THEN (s[mid] + s[mid + 1]) \div 2 ELSE s[mid + 1]

\* --------------------------------------------------------- cache.ts code

\* The Cache type: the fields of the object and what they hold.
IsCache(c) ==
  /\ DOMAIN c = {"_defaultItemSize", "_length", "_sizes",
                 "_measuredOffsetIndex", "_offsets"}
  /\ c._defaultItemSize \in Int
  /\ c._length \in Int
  /\ c._measuredOffsetIndex \in Int
  /\ c._sizes \in Seq(Int)
  /\ c._offsets \in Seq(Int)

\* getItemSize returning the entry as it is, UNCACHED included.
getItemSizeRaw(c, index) == c._sizes[index + 1]

getItemSize(c, index) ==
  LET size == c._sizes[index + 1]
  IN IF size = UNCACHED THEN c._defaultItemSize ELSE size

\* setItemSize without the "mark as dirty" line.
setItemSizeNoDirty(c, index, size) ==
  [cache |-> [c EXCEPT !._sizes[index + 1] = size],
   ret |-> (c._sizes[index + 1] = UNCACHED)]

\* setItemSize assigning the index to the watermark instead of the minimum.
setItemSizeAssign(c, index, size) ==
  [cache |-> [c EXCEPT !._sizes[index + 1] = size,
                       !._measuredOffsetIndex = index],
   ret |-> (c._sizes[index + 1] = UNCACHED)]

\* setItemSize testing for UNCACHED after the write instead of before it.
setItemSizeLateCheck(c, index, size) ==
  [cache |-> [c EXCEPT !._sizes[index + 1] = size,
                       !._measuredOffsetIndex = min(index, @)],
   ret |-> (size = UNCACHED)]

setItemSize(c, index, size) ==
  [cache |-> [c EXCEPT !._sizes[index + 1] = size,
                       !._measuredOffsetIndex = min(index, @)],
   ret |-> (c._sizes[index + 1] = UNCACHED)]

\* The loop of computeOffset writing offsets[i++] = top: the entry written
\* is one index too low, the entry of index itself is never written.
RECURSIVE offsetWalkPostIncrement(_, _, _, _, _)
offsetWalkPostIncrement(c, offsets, i, top, index) ==
  IF i < index
  THEN LET t == top + getItemSize(c, i)
       IN offsetWalkPostIncrement(c, [offsets EXCEPT ![i + 1] = t], i + 1, t,
                                  index)
  ELSE [offsets |-> offsets, top |-> top]

\* The while loop of computeOffset: from i with running offset top up to
\* index, writing offsets[++i] = top at each step.
RECURSIVE offsetWalk(_, _, _, _, _)
offsetWalk(c, offsets, i, top, index) ==
  IF i < index
  THEN LET t == top + getItemSize(c, i)
       IN offsetWalk(c, [offsets EXCEPT ![i + 2] = t], i + 1, t, index)
  ELSE [offsets |-> offsets, top |-> top]

\* computeOffset without the "mark as measured" line.
computeOffsetNoMark(c, index) ==
  IF c._length = 0 THEN [cache |-> c, ret |-> 0]
  ELSE IF c._measuredOffsetIndex >= index
  THEN [cache |-> c, ret |-> c._offsets[index + 1]]
  ELSE LET i == c._measuredOffsetIndex
           w == offsetWalk(c, c._offsets, i, c._offsets[i + 1], index)
       IN [cache |-> [c EXCEPT !._offsets = w.offsets],
           ret |-> w.top]

computeOffset(c, index) ==
  IF c._length = 0 THEN [cache |-> c, ret |-> 0]
  ELSE IF c._measuredOffsetIndex >= index
  THEN [cache |-> c, ret |-> c._offsets[index + 1]]
  ELSE LET i == c._measuredOffsetIndex
           w == offsetWalk(c, c._offsets, i, c._offsets[i + 1], index)
       IN [cache |-> [c EXCEPT !._offsets = w.offsets,
                               !._measuredOffsetIndex = index],
           ret |-> w.top]

\* The indexes at which computeOffset(c, index) reads cache._offsets: none on
\* an empty store, index itself when the watermark covers it (line 37), the
\* watermark otherwise (line 41).
offsetReads(c, index) ==
  IF c._length = 0 THEN {}
  ELSE IF c._measuredOffsetIndex >= index THEN {index}
  ELSE {c._measuredOffsetIndex}

computeTotalSize(c) ==
  IF c._length = 0 THEN [cache |-> c, ret |-> 0]
  ELSE LET o == computeOffset(c, c._length - 1)
       IN [cache |-> o.cache,
           ret |-> o.ret + getItemSize(o.cache, c._length - 1)]

\* The forward loop with sum - h / 2 > distance as the tie-break.
RECURSIVE searchForwardStrict(_, _, _, _)
searchForwardStrict(c, i, sum, distance) ==
  IF i < c._length - 1
  THEN LET h == getItemSize(c, i)
           s == sum + h
       IN IF s >= distance
          THEN (IF 2 * s - h > 2 * distance THEN i ELSE i + 1)
          ELSE searchForwardStrict(c, i + 1, s, distance)
  ELSE i

\* The forward loop without the midpoint step back (i-- never taken).
RECURSIVE searchForwardNoStepBack(_, _, _, _)
searchForwardNoStepBack(c, i, sum, distance) ==
  IF i < c._length - 1
  THEN LET h == getItemSize(c, i)
           s == sum + h
       IN IF s >= distance
          THEN i + 1
          ELSE searchForwardNoStepBack(c, i + 1, s, distance)
  ELSE i

\* Forward loop of findIndex; sum - h / 2 >= distance is compared doubled.
RECURSIVE searchForward(_, _, _, _)
searchForward(c, i, sum, distance) ==
  IF i < c._length - 1
  THEN LET h == getItemSize(c, i)
           s == sum + h
       IN IF s >= distance
          THEN (IF 2 * s - h >= 2 * distance THEN i ELSE i + 1)
          ELSE searchForward(c, i + 1, s, distance)
  ELSE i

\* The backward loop with sum + h / 2 <= distance as the tie-break.
RECURSIVE searchBackwardNonStrict(_, _, _, _)
searchBackwardNonStrict(c, i, sum, distance) ==
  IF i > 0
  THEN LET h == getItemSize(c, i - 1)
           s == sum - h
       IN IF s <= distance
          THEN (IF 2 * s + h <= 2 * distance THEN i ELSE i - 1)
          ELSE searchBackwardNonStrict(c, i - 1, s, distance)
  ELSE i

\* Backward loop of findIndex; sum + h / 2 < distance is compared doubled.
RECURSIVE searchBackward(_, _, _, _)
searchBackward(c, i, sum, distance) ==
  IF i > 0
  THEN LET h == getItemSize(c, i - 1)
           s == sum - h
       IN IF s <= distance
          THEN (IF 2 * s + h < 2 * distance THEN i ELSE i - 1)
          ELSE searchBackward(c, i - 1, s, distance)
  ELSE i

findIndex(c, i, distance) ==
  clamp(IF distance >= 0
        THEN searchForward(c, i, 0, distance)
        ELSE searchBackward(c, i, 0, distance),
        0, c._length - 1)

findStartIndexWithOffset(c, offset, initialIndex) ==
  LET o == computeOffset(c, initialIndex)
  IN [cache |-> o.cache,
      ret |-> findIndex(o.cache, initialIndex, offset - o.ret)]

\* computeRange searching the end from index 0 instead of from the start.
computeRangeEndFromZero(c, scrollOffset, prevStartIndex, viewportSize) ==
  LET s == findStartIndexWithOffset(c, scrollOffset,
                                    min(prevStartIndex, c._length - 1))
  IN [cache |-> s.cache,
      ret |-> <<s.ret, findIndex(s.cache, 0, viewportSize)>>]

computeRange(c, scrollOffset, prevStartIndex, viewportSize) ==
  LET s == findStartIndexWithOffset(c, scrollOffset,
                                    min(prevStartIndex, c._length - 1))
  IN [cache |-> s.cache,
      ret |-> <<s.ret, findIndex(s.cache, s.ret, viewportSize)>>]

\* estimateDefaultItemSize without the filter: unmeasured entries count.
estimateDefaultItemSizeNoFilter(c) ==
  LET measuredSizes == c._sizes
      startItemSize == measuredSizes[1]
  IN [c EXCEPT !._defaultItemSize =
        IF \A k \in 1 .. Len(measuredSizes) : measuredSizes[k] = startItemSize
        THEN startItemSize
        ELSE median(measuredSizes)]

estimateDefaultItemSize(c) ==
  LET measuredSizes == SelectSeq(c._sizes, LAMBDA s : s # UNCACHED)
      startItemSize == measuredSizes[1]
  IN [c EXCEPT !._defaultItemSize =
        IF \A k \in 1 .. Len(measuredSizes) : measuredSizes[k] = startItemSize
        THEN startItemSize
        ELSE median(measuredSizes)]

\* The loop of appendCache always pushing, whatever prepend says.
RECURSIVE appendLoopPush(_, _, _, _)
appendLoopPush(c, i, length, prepend) ==
  IF i < length
  THEN appendLoopPush(
         [c EXCEPT !._sizes = Append(@, UNCACHED),
                   !._offsets = Append(@, IF i = 0 THEN 0 ELSE UNCACHED)],
         i + 1, length, prepend)
  ELSE c

\* The loop of appendCache pushing UNCACHED as every offset, the first too.
RECURSIVE appendLoopNoZero(_, _, _, _)
appendLoopNoZero(c, i, length, prepend) ==
  IF i < length
  THEN appendLoopNoZero(
         [c EXCEPT !._sizes = IF prepend THEN <<UNCACHED>> \o @
                              ELSE Append(@, UNCACHED),
                   !._offsets = Append(@, UNCACHED)],
         i + 1, length, prepend)
  ELSE c

\* The for loop of appendCache, from i = cache._length up to length - 1.
RECURSIVE appendLoop(_, _, _, _)
appendLoop(c, i, length, prepend) ==
  IF i < length
  THEN appendLoop(
         [c EXCEPT !._sizes = IF prepend THEN <<UNCACHED>> \o @
                              ELSE Append(@, UNCACHED),
                   !._offsets = Append(@, IF i = 0 THEN 0 ELSE UNCACHED)],
         i + 1, length, prepend)
  ELSE c

appendCache(c, length, prepend) ==
  [appendLoop(c, c._length, length, prepend) EXCEPT !._length = length]

initCache(length, itemSize) ==
  appendCache([_defaultItemSize |-> itemSize,
               _length |-> 0,
               _measuredOffsetIndex |-> 0,
               _sizes |-> <<>>,
               _offsets |-> <<>>],
              length, FALSE)

\* splice(start) cutting the first -start entries instead of the last.
spliceTailFromHead(arr, start) ==
  LET n == min(0 - start, Len(arr))
  IN [rest |-> SubSeq(arr, n + 1, Len(arr)), removed |-> SubSeq(arr, 1, n)]

\* Array.prototype.splice(start) with start < 0: cuts the last -start
\* entries (all of them when the array is shorter).
spliceTail(arr, start) ==
  LET keep == max(Len(arr) + start, 0)
  IN [rest |-> SubSeq(arr, 1, keep), removed |-> SubSeq(arr, keep + 1, Len(arr))]

\* splice(0, deleteCount) cutting the last deleteCount entries instead of the
\* first.
spliceHeadFromTail(arr, deleteCount) ==
  LET keep == max(Len(arr) - deleteCount, 0)
  IN [rest |-> SubSeq(arr, 1, keep), removed |-> SubSeq(arr, keep + 1, Len(arr))]

\* Array.prototype.splice(0, deleteCount): cuts the first deleteCount entries.
spliceHead(arr, deleteCount) ==
  LET n == min(deleteCount, Len(arr))
  IN [rest |-> SubSeq(arr, n + 1, Len(arr)), removed |-> SubSeq(arr, 1, n)]

\* The reduce adding the removed entries as they are, UNCACHED included.
RECURSIVE removedSumRaw(_, _)
removedSumRaw(c, removed) ==
  IF removed = <<>> THEN 0
  ELSE Head(removed) + removedSumRaw(c, Tail(removed))

\* The reduce of updateCacheLength over the removed sizes.
RECURSIVE removedSum(_, _)
removedSum(c, removed) ==
  IF removed = <<>> THEN 0
  ELSE (IF Head(removed) = UNCACHED THEN c._defaultItemSize ELSE Head(removed))
       + removedSum(c, Tail(removed))

\* updateCacheLength leaving the watermark as it is on a tail change.
updateCacheLengthNoClamp(c, length, isShift) ==
  LET diff == length - c._length
      isRemove == diff < 0
      cut == IF isShift THEN spliceHead(c._sizes, 0 - diff)
             ELSE spliceTail(c._sizes, diff)
      shift == IF isRemove THEN removedSum(c, cut.removed)
               ELSE c._defaultItemSize * diff
      c1 == IF isRemove
            THEN [c EXCEPT !._sizes = cut.rest,
                           !._offsets = spliceTail(@, diff).rest]
            ELSE appendCache(c, c._length + diff, isShift)
  IN [cache |-> [c1 EXCEPT !._measuredOffsetIndex =
                             IF isShift THEN 0
                             ELSE c._measuredOffsetIndex,
                           !._length = length],
      ret |-> <<shift, isRemove>>]

\* updateCacheLength clamping the watermark on a head change too, instead of
\* resetting it.
updateCacheLengthKeep(c, length, isShift) ==
  LET diff == length - c._length
      isRemove == diff < 0
      cut == IF isShift THEN spliceHead(c._sizes, 0 - diff)
             ELSE spliceTail(c._sizes, diff)
      shift == IF isRemove THEN removedSum(c, cut.removed)
               ELSE c._defaultItemSize * diff
      c1 == IF isRemove
            THEN [c EXCEPT !._sizes = cut.rest,
                           !._offsets = spliceTail(@, diff).rest]
            ELSE appendCache(c, c._length + diff, isShift)
  IN [cache |-> [c1 EXCEPT !._measuredOffsetIndex =
                             clamp(length - 1, 0, c._measuredOffsetIndex),
                           !._length = length],
      ret |-> <<shift, isRemove>>]

\* updateCacheLength clamping the watermark to length instead of length - 1.
updateCacheLengthOffByOne(c, length, isShift) ==
  LET diff == length - c._length
      isRemove == diff < 0
      cut == IF isShift THEN spliceHead(c._sizes, 0 - diff)
             ELSE spliceTail(c._sizes, diff)
      shift == IF isRemove THEN removedSum(c, cut.removed)
               ELSE c._defaultItemSize * diff
      c1 == IF isRemove
            THEN [c EXCEPT !._sizes = cut.rest,
                           !._offsets = spliceTail(@, diff).rest]
            ELSE appendCache(c, c._length + diff, isShift)
  IN [cache |-> [c1 EXCEPT !._measuredOffsetIndex =
                             IF isShift THEN 0
                             ELSE clamp(length, 0, c._measuredOffsetIndex),
                           !._length = length],
      ret |-> <<shift, isRemove>>]

updateCacheLength(c, length, isShift) ==
  LET diff == length - c._length
      isRemove == diff < 0
      cut == IF isShift THEN spliceHead(c._sizes, 0 - diff)
             ELSE spliceTail(c._sizes, diff)
      shift == IF isRemove THEN removedSum(c, cut.removed)
               ELSE c._defaultItemSize * diff
      c1 == IF isRemove
            THEN [c EXCEPT !._sizes = cut.rest,
                           !._offsets = spliceTail(@, diff).rest]
            ELSE appendCache(c, c._length + diff, isShift)
  IN [cache |-> [c1 EXCEPT !._measuredOffsetIndex =
                             IF isShift THEN 0
                             ELSE clamp(length - 1, 0, c._measuredOffsetIndex),
                           !._length = length],
      ret |-> <<shift, isRemove>>]

\* ------------------------------------------------------------ the caller

\* The items' flags after the caller changes the length: new items are
\* untouched, they join and leave at the head or at the tail.
resized(flags, length, isPrepend) ==
  LET old == Len(flags)
      fresh == [k \in 1 .. length - old |-> FALSE]
  IN IF length < old
     THEN (IF isPrepend THEN SubSeq(flags, old - length + 1, old)
           ELSE SubSeq(flags, 1, length))
     ELSE (IF isPrepend THEN fresh \o flags ELSE flags \o fresh)

Init ==
  /\ \E length \in 0 .. MaxLen, itemSize \in InitSizes :
       /\ cache = initCache(length, itemSize)
       /\ touched = resized(<<>>, length, FALSE)

SetSize ==
  \E index \in 0 .. cache._length - 1, size \in Sizes :
    /\ cache' = setItemSize(cache, index, size).cache
    /\ touched' = [touched EXCEPT ![index + 1] = TRUE]

\* Called only after a measurement (cache.ts line 129).
EstimateDefaultSize ==
  /\ \E k \in 1 .. Len(cache._sizes) : cache._sizes[k] # UNCACHED
  /\ cache' = estimateDefaultItemSize(cache)
  /\ UNCHANGED touched

ComputeOffset ==
  \E index \in 0 .. cache._length - 1 :
    /\ cache' = computeOffset(cache, index).cache
    /\ UNCHANGED touched

ComputeTotalSize ==
  /\ cache' = computeTotalSize(cache).cache
  /\ UNCHANGED touched

ComputeRange ==
  \E scrollOffset \in ScrollOffsets, prevStartIndex \in PrevIndexes,
     viewportSize \in Viewports :
    /\ cache' = computeRange(cache, scrollOffset, prevStartIndex,
                             viewportSize).cache
    /\ UNCHANGED touched

UpdateLength ==
  \E length \in 0 .. MaxLen, isPrepend \in BOOLEAN :
    /\ cache' = updateCacheLength(cache, length, isPrepend).cache
    /\ touched' = resized(touched, length, isPrepend)

Next ==
  \/ SetSize
  \/ EstimateDefaultSize
  \/ ComputeOffset
  \/ ComputeTotalSize
  \/ ComputeRange
  \/ UpdateLength

Spec == Init /\ [][Next]_vars

\* The caller that never re-estimates the default size.
NextNoEstimate ==
  \/ SetSize
  \/ ComputeOffset
  \/ ComputeTotalSize
  \/ ComputeRange
  \/ UpdateLength

SpecNoEstimate == Init /\ [][NextNoEstimate]_vars

\* The same caller once more, one name for each family of range claims: the
\* claims on the searches of the range, and the claim on its bounds.
SpecScroll == Init /\ [][Next]_vars

SpecRange == Init /\ [][Next]_vars

\* -------------------------------------------- the store of the range test
\* A store of 10 items of size 10: created with 10 items and a default size
\* of 10, any of them then measured as 10.

TenStore == [length |-> 10, itemSize |-> 10]

TenQuery == [scrollOffset |-> 25, prevStartIndex |-> 0, viewportSize |-> 30]

InitTen ==
  /\ cache = initCache(TenStore.length, TenStore.itemSize)
  /\ touched = resized(<<>>, TenStore.length, FALSE)

SetSizeTen ==
  \E index \in 0 .. cache._length - 1 :
    /\ cache' = setItemSize(cache, index, TenStore.itemSize).cache
    /\ touched' = [touched EXCEPT ![index + 1] = TRUE]

ComputeTotalSizeTen ==
  /\ cache' = computeTotalSize(cache).cache
  /\ UNCHANGED touched

ComputeRangeTen ==
  /\ cache' = computeRange(cache, TenQuery.scrollOffset,
                           TenQuery.prevStartIndex,
                           TenQuery.viewportSize).cache
  /\ UNCHANGED touched

NextTen ==
  \/ SetSizeTen
  \/ ComputeTotalSizeTen
  \/ ComputeRangeTen

SpecTen == InitTen /\ [][NextTen]_vars

\* ------------------------------------------------------------ references

Indexes(c) == 0 .. c._length - 1

\* effectiveSize(k) of the specification: the measured size, else the default.
effectiveSize(c, k) ==
  IF c._sizes[k + 1] # UNCACHED THEN c._sizes[k + 1] ELSE c._defaultItemSize

\* The sum of effectiveSize(k) over from <= k < to.
RECURSIVE SizeSum(_, _, _)
SizeSum(c, from, to) ==
  IF from >= to THEN 0 ELSE effectiveSize(c, from) + SizeSum(c, from + 1, to)

PrefixSum(c, i) == SizeSum(c, 0, i)

TotalSize(c) == PrefixSum(c, c._length)

\* The cached offsets up to the watermark agree with the sizes.
Consistent(c) ==
  \A i \in Indexes(c) :
    i <= c._measuredOffsetIndex => c._offsets[i + 1] = PrefixSum(c, i)

\* Some offset beyond the watermark is cached and differs from the prefix sum
\* of the current sizes by way of the entry at the watermark.
StaleBeyondWatermark(c) ==
  \E j \in Indexes(c) :
    /\ j > c._measuredOffsetIndex
    /\ c._offsets[j + 1] # UNCACHED
    /\ c._offsets[j + 1] # c._offsets[c._measuredOffsetIndex + 1]
                           + SizeSum(c, c._measuredOffsetIndex, j)

\* The item whose body [start, start + size) holds the offset x.
Straddling(c, x) ==
  CHOOSE i \in Indexes(c) :
    PrefixSum(c, i) <= x /\ x < PrefixSum(c, i) + effectiveSize(c, i)

\* The item whose start is nearest to x: the straddling item when x is at or
\* before its midpoint, the next item (if there is one) otherwise.
NearestStart(c, x) ==
  LET k == Straddling(c, x)
  IN IF 2 * (x - PrefixSum(c, k)) <= effectiveSize(c, k) THEN k
     ELSE min(k + 1, c._length - 1)

\* The stores that an offset query (computeOffset, computeTotalSize or
\* computeRange) can leave behind when called on c, and c itself.
OffsetQueries(c) ==
  {c, computeTotalSize(c).cache}
    \cup {computeOffset(c, m).cache : m \in Indexes(c)}
    \cup {computeRange(c, 0, p, 0).cache : p \in PrevIndexes}

\* The scroll offsets inside the content of c.
InsideOffsets(c) == 0 .. TotalSize(c) - 1

\* ---------------------------------------------------------------- claims

\* C1: every cached offset at or below the watermark is the sum of the
\* effective sizes (measured size, else the current default) of the items
\* before it; and once the offsets are materialised up to the last item,
\* computeOffset(i + 1) = computeOffset(i) + getSize(i).
C1_OffsetsArePrefixSums ==
  /\ Consistent(cache)
  /\ (cache._length > 0 /\ cache._measuredOffsetIndex = cache._length - 1)
       => \A i \in Indexes(cache) :
            i + 1 < cache._length =>
              computeOffset(cache, i + 1).ret
                = computeOffset(cache, i).ret + getItemSize(cache, i)

\* C2: the watermark is never negative and never beyond the last item:
\* 0 <= measuredOffsetIndex <= max(length - 1, 0).
C2_WatermarkInRange ==
  /\ 0 <= cache._measuredOffsetIndex
  /\ cache._measuredOffsetIndex <= max(cache._length - 1, 0)

\* A store shrunk to length 0: it is empty, and its default was estimated
\* from measured items, so it held items once.  max(length - 1, 0) is 0.
C2_Witness ==
  /\ cache._length = 0
  /\ cache._defaultItemSize \notin InitSizes
  /\ cache._measuredOffsetIndex = 0

\* C3: after setSize(i, v) with i at or below the watermark, whatever offset
\* query m comes next, computeOffset(j) for every j > i is
\* computeOffset(i) + v + the effective sizes of the items between i and j.
C3_WriteIsReflected ==
  \A i \in Indexes(cache), v \in Sizes :
    i <= cache._measuredOffsetIndex =>
      LET c1 == setItemSize(cache, i, v).cache
      IN \A c2 \in OffsetQueries(c1) :
           \A j \in Indexes(cache) :
             j > i =>
               computeOffset(c2, j).ret
                 = computeOffset(c2, i).ret + v + SizeSum(c2, i + 1, j)

\* A setSize below the watermark has left a cached offset behind that was
\* computed from the size the item had before: computeOffset returns
\* another value than the entry cached for that index.
C3_Witness ==
  /\ cache._length > 0
  /\ cache._sizes[cache._measuredOffsetIndex + 1] # UNCACHED
  /\ StaleBeyondWatermark(cache)
  /\ \E j \in Indexes(cache) :
       /\ cache._offsets[j + 1] # UNCACHED
       /\ computeOffset(cache, j).ret # cache._offsets[j + 1]

\* C4: setSize(index, size) sets the watermark to min(old watermark, index),
\* writes the size at that index only, and leaves length, defaultItemSize
\* and the offsets as they are.
C4_SetSizeFrame ==
  \A index \in Indexes(cache), size \in Sizes :
    LET c1 == setItemSize(cache, index, size).cache
    IN /\ c1._measuredOffsetIndex = min(cache._measuredOffsetIndex, index)
       /\ c1._measuredOffsetIndex <= cache._measuredOffsetIndex
       /\ Len(c1._sizes) = Len(cache._sizes)
       /\ c1._sizes[index + 1] = size
       /\ \A k \in Indexes(cache) :
            k # index => c1._sizes[k + 1] = cache._sizes[k + 1]
       /\ c1._length = cache._length
       /\ c1._defaultItemSize = cache._defaultItemSize
       /\ c1._offsets = cache._offsets

\* setSize has measured the items at 1 and 2 and the watermark is 1: a
\* setSize at 2 holds the watermark, one at 0 lowers it.
C4_Witness ==
  /\ cache._length >= 3
  /\ cache._measuredOffsetIndex = 1
  /\ cache._sizes[2] # UNCACHED
  /\ cache._sizes[3] # UNCACHED
  /\ \E size \in Sizes :
       /\ setItemSize(cache, 2, size).cache._measuredOffsetIndex = 1
       /\ setItemSize(cache, 0, size).cache._measuredOffsetIndex = 0

\* C5: computeOffset(i) called twice in a row returns the same offset both
\* times, and the second call leaves the whole store as the first left it.
C5_ComputeOffsetIdempotent ==
  \A i \in Indexes(cache) :
    LET first == computeOffset(cache, i)
        second == computeOffset(first.cache, i)
    IN /\ second.ret = first.ret
       /\ second.cache = first.cache

\* computeOffset has walked the offsets beyond index 0, and a first call at
\* a higher index walks further, after which a second returns what the
\* first cached.
C5_Witness ==
  /\ cache._measuredOffsetIndex >= 1
  /\ cache._offsets[cache._measuredOffsetIndex + 1] > 0
  /\ \E i \in Indexes(cache) :
       /\ i > cache._measuredOffsetIndex
       /\ computeOffset(cache, i).cache # cache
       /\ computeOffset(computeOffset(cache, i).cache, i).ret > 0

\* C6 as stated: on a non-empty store whose cached offsets agree with its
\* sizes, for a scroll offset inside the content, the start index of
\* computeRange is the item whose body straddles the offset.
C6_StartStraddles ==
  (cache._length > 0 /\ Consistent(cache)) =>
    \A x \in InsideOffsets(cache) :
      LET expected == Straddling(cache, x)
      IN \A p \in PrevIndexes, v \in Viewports :
           computeRange(cache, x, p, v).ret[1] = expected

\* C6 as amended: the start index is the item whose start is nearest to the
\* offset: the straddling item when the offset is at or before that item's
\* midpoint, and the item after it (if any) when it is past the midpoint.
C6_StartIsNearest ==
  (cache._length > 0 /\ Consistent(cache)) =>
    \A x \in InsideOffsets(cache) :
      LET expected == NearestStart(cache, x)
      IN \A p \in PrevIndexes, v \in Viewports :
           computeRange(cache, x, p, v).ret[1] = expected

\* A consistent store of three items with its offsets walked to the end, in
\* which an offset past the midpoint of item 0 starts the range at item 1.
C6_Witness ==
  /\ cache._measuredOffsetIndex = 2
  /\ cache._length = 3
  /\ Consistent(cache)
  /\ \E x \in InsideOffsets(cache) :
       /\ Straddling(cache, x) = 0
       /\ computeRange(cache, x, 2, 3).ret[1] = 1

\* C7: on a store of 10 items of size 10, measured or not,
\* computeRange(25, 0, 30) returns [2, 5].
C7_RangeOfTen ==
  computeRange(cache, TenQuery.scrollOffset, TenQuery.prevStartIndex,
               TenQuery.viewportSize).ret = <<2, 5>>

\* The query returns [2, 5] on a store with measured and unmeasured items
\* whose offsets have been walked.
C7_Witness ==
  /\ cache._length = TenStore.length
  /\ cache._measuredOffsetIndex > 0
  /\ computeRange(cache, TenQuery.scrollOffset, TenQuery.prevStartIndex,
                  TenQuery.viewportSize).ret = <<2, 5>>
  /\ \E k \in Indexes(cache) : cache._sizes[k + 1] = UNCACHED
  /\ \E k \in Indexes(cache) : cache._sizes[k + 1] = TenStore.itemSize

\* C8: a shrinking updateLength returns wasRemoval = TRUE and, as shift, the
\* sum of the effective sizes of the removed items: the last ones from the
\* tail, the first ones from the head.  On 5 unmeasured items with a default
\* of 10, updateLength(3, FALSE) returns (20, TRUE).
C8_ShrinkShift ==
  /\ \A newLength \in 0 .. MaxLen, isPrepend \in BOOLEAN :
       newLength < cache._length =>
         updateCacheLength(cache, newLength, isPrepend).ret
           = <<IF isPrepend
               THEN SizeSum(cache, 0, cache._length - newLength)
               ELSE SizeSum(cache, newLength, cache._length),
               TRUE>>
  /\ updateCacheLength(initCache(5, 10), 3, FALSE).ret = <<20, TRUE>>

\* A store of three items, one measured at the head and one unmeasured at
\* the tail, whose default differs from the measured size: cutting two
\* items yields different shifts from the two ends.
C8_Witness ==
  /\ cache._length = 3
  /\ cache._sizes[1] # UNCACHED
  /\ cache._sizes[3] = UNCACHED
  /\ updateCacheLength(cache, 1, FALSE).ret
       = <<effectiveSize(cache, 1) + cache._defaultItemSize, TRUE>>
  /\ updateCacheLength(cache, 1, TRUE).ret[1]
       # updateCacheLength(cache, 1, FALSE).ret[1]

\* C9: a growing (or length-keeping) updateLength returns wasRemoval = FALSE
\* and shift = defaultItemSize * (newLength - length), and adds exactly
\* newLength - length unmeasured entries: after the old ones from the tail,
\* before them from the head.
C9_GrowShift ==
  \A newLength \in 0 .. MaxLen, isPrepend \in BOOLEAN :
    newLength >= cache._length =>
      LET r == updateCacheLength(cache, newLength, isPrepend)
          d == newLength - cache._length
          fresh == [k \in 1 .. d |-> UNCACHED]
      IN /\ r.ret = <<cache._defaultItemSize * d, FALSE>>
         /\ r.cache._length = newLength
         /\ r.cache._sizes = IF isPrepend THEN fresh \o cache._sizes
                             ELSE cache._sizes \o fresh

\* A store of one measured item, which updateLength(3, TRUE) grows at the
\* head and updateLength(3, FALSE) at the tail, both with two defaults as
\* shift.
C9_Witness ==
  /\ cache._length = 1
  /\ cache._sizes[1] # UNCACHED
  /\ cache._sizes[1] # cache._defaultItemSize
  /\ updateCacheLength(cache, 3, TRUE).cache._sizes
       = <<UNCACHED, UNCACHED, cache._sizes[1]>>
  /\ updateCacheLength(cache, 3, FALSE).cache._sizes
       = <<cache._sizes[1], UNCACHED, UNCACHED>>
  /\ updateCacheLength(cache, 3, TRUE).ret
       = <<2 * cache._defaultItemSize, FALSE>>

\* C10: right after updateLength(newLength, isPrepend = TRUE) the watermark
\* is 0, and every computeOffset(j) that follows is the prefix sum of the
\* current sizes, not an offset cached before the call.
C10_PrependResets ==
  \A newLength \in 0 .. MaxLen :
    LET c1 == updateCacheLength(cache, newLength, TRUE).cache
    IN /\ c1._measuredOffsetIndex = 0
       /\ \A j \in Indexes(c1) : computeOffset(c1, j).ret = PrefixSum(c1, j)

\* An updateLength at the head has reset the watermark and left behind
\* offsets cached for the items as they were indexed before: the item at 0
\* is new (unmeasured), the watermark is 0, and a cached offset beyond it
\* differs from the prefix sum computeOffset returns.
C10_Witness ==
  /\ cache._measuredOffsetIndex = 0
  /\ cache._length >= 2
  /\ cache._sizes[1] = UNCACHED
  /\ StaleBeyondWatermark(cache)
  /\ \E j \in Indexes(cache) :
       /\ cache._offsets[j + 1] # UNCACHED
       /\ computeOffset(cache, j).ret = PrefixSum(cache, j)
       /\ computeOffset(cache, j).ret # cache._offsets[j + 1]

\* C11: the shift of a head change compensates the offsets.  After
\* updateLength(length + d, TRUE) returns shift, computeOffset(i + d) is
\* shift plus the effective sizes of the old items before i, for every old
\* index i; after updateLength(length - d, TRUE) returns shift,
\* computeOffset(i) is the effective sizes of the old items before old index
\* i + d, minus shift, for every surviving index i.
C11_HeadShiftCompensates ==
  \A newLength \in 0 .. MaxLen :
    LET r == updateCacheLength(cache, newLength, TRUE)
        shift == r.ret[1]
        d == newLength - cache._length
    IN \A c2 \in OffsetQueries(r.cache) :
         IF d >= 0
         THEN \A i \in Indexes(cache) :
                computeOffset(c2, i + d).ret = shift + PrefixSum(cache, i)
         ELSE \A i \in Indexes(c2) :
                computeOffset(c2, i).ret = PrefixSum(cache, i - d) - shift

\* A store of two items with the first measured, a size other than the
\* default, and the offsets walked: growing it at the head moves the second
\* item's offset by the shift, cutting its head moves it back by the shift.
C11_Witness ==
  /\ cache._length = 2
  /\ cache._measuredOffsetIndex = 1
  /\ touched[1]
  /\ cache._sizes[1] # cache._defaultItemSize
  /\ LET grown == updateCacheLength(cache, 3, TRUE)
         cut == updateCacheLength(cache, 1, TRUE)
     IN /\ grown.ret[1] > 0
        /\ computeOffset(grown.cache, 2).ret
             = grown.ret[1] + computeOffset(cache, 1).ret
        /\ cut.ret[1] = cache._sizes[1]
        /\ computeOffset(cut.cache, 0).ret
             = computeOffset(cache, 1).ret - cut.ret[1]

\* The positions of the measured entries of c._sizes.
MeasuredAt(c) == {k \in 1 .. Len(c._sizes) : c._sizes[k] # UNCACHED}

\* The measured size of rank r (1 the smallest), by counting.
RankedSize(c, r) ==
  LET sizeAt == {c._sizes[k] : k \in MeasuredAt(c)}
  IN CHOOSE x \in sizeAt :
       /\ Cardinality({k \in MeasuredAt(c) : c._sizes[k] < x}) < r
       /\ Cardinality({k \in MeasuredAt(c) : c._sizes[k] <= x}) >= r

\* Twice the median of the measured sizes: twice the middle one, or the sum
\* of the two middle ones.
TwiceMedian(c) ==
  LET n == Cardinality(MeasuredAt(c))
  IN IF n % 2 = 1 THEN 2 * RankedSize(c, (n + 1) \div 2)
     ELSE RankedSize(c, n \div 2) + RankedSize(c, n \div 2 + 1)

\* The store created with length items, then measured with the given sizes
\* at the indexes 0, 1, 2.
MeasuredThree(length, a, b, x) ==
  setItemSize(setItemSize(setItemSize(initCache(length, 3), 0, a).cache,
                          1, b).cache, 2, x).cache

\* C12: with at least one measured size, estimateDefaultSize sets the
\* default to the common value when all measured sizes are equal and to
\* their median otherwise, ignoring unmeasured entries, and changes nothing
\* else.  Measured [10, 10, 10] gives 10 and measured [10, 1000, 12] gives 12.
C12_EstimateIsMedian ==
  /\ MeasuredAt(cache) # {} =>
       LET c1 == estimateDefaultItemSize(cache)
           sizeAt == {cache._sizes[k] : k \in MeasuredAt(cache)}
       IN /\ IF Cardinality(sizeAt) = 1
             THEN c1._defaultItemSize \in sizeAt
             ELSE 2 * c1._defaultItemSize = TwiceMedian(cache)
          /\ c1 = [cache EXCEPT !._defaultItemSize = c1._defaultItemSize]
  /\ estimateDefaultItemSize(MeasuredThree(3, 10, 10, 10))._defaultItemSize
       = 10
  /\ estimateDefaultItemSize(MeasuredThree(3, 10, 1000, 12))._defaultItemSize
       = 12
  /\ estimateDefaultItemSize(MeasuredThree(5, 10, 1000, 12))._defaultItemSize
       = 12

\* Three items, one unmeasured and two measured with different sizes: the
\* estimate is their mean, which is neither of them nor the old default
\* taken over from the unmeasured entry.
C12_Witness ==
  /\ cache._length = 3
  /\ Cardinality(MeasuredAt(cache)) = 2
  /\ estimateDefaultItemSize(cache)._defaultItemSize
       \notin {cache._sizes[k] : k \in 1 .. 3}
  /\ 2 * estimateDefaultItemSize(cache)._defaultItemSize = TwiceMedian(cache)

\* C13: the sizes and the offsets both have exactly length entries, and
\* offsets[0] is 0 whenever the store is not empty.
C13_RecordsHaveLength ==
  /\ Len(cache._sizes) = cache._length
  /\ Len(cache._offsets) = cache._length
  /\ cache._length > 0 => cache._offsets[1] = 0

\* A store that was cut down and grown again: its default was estimated
\* from measured items, yet no item is measured and no offset beyond the
\* first is cached.
C13_Witness ==
  /\ cache._length >= 2
  /\ cache._defaultItemSize \notin InitSizes
  /\ \A k \in 1 .. cache._length : ~touched[k]
  /\ \A k \in 2 .. cache._length : cache._offsets[k] = UNCACHED
  /\ cache._offsets[1] = 0

\* C14: on a non-empty store computeOffset(index) leaves the watermark at
\* max(old watermark, index) and changes neither sizes, length, default nor
\* any offset at or below the old watermark; on an empty store it returns 0
\* and changes nothing.
C14_ComputeOffsetFrame ==
  IF cache._length = 0
  THEN \A index \in (0 - 1) .. MaxLen :
         computeOffset(cache, index) = [cache |-> cache, ret |-> 0]
  ELSE \A index \in Indexes(cache) :
         LET c1 == computeOffset(cache, index).cache
         IN /\ c1._measuredOffsetIndex
                 = max(cache._measuredOffsetIndex, index)
            /\ c1._sizes = cache._sizes
            /\ c1._length = cache._length
            /\ c1._defaultItemSize = cache._defaultItemSize
            /\ Len(c1._offsets) = Len(cache._offsets)
            /\ \A k \in Indexes(cache) :
                 k <= cache._measuredOffsetIndex =>
                   c1._offsets[k + 1] = cache._offsets[k + 1]

\* A store with the watermark below its last item and a stale offset cached
\* beyond it: computeOffset of the last item advances the watermark and
\* rewrites that offset.
C14_Witness ==
  /\ cache._length >= 2
  /\ cache._measuredOffsetIndex < cache._length - 1
  /\ StaleBeyondWatermark(cache)
  /\ LET c1 == computeOffset(cache, cache._length - 1).cache
     IN /\ c1._measuredOffsetIndex = cache._length - 1
        /\ c1._offsets # cache._offsets

\* The indexes at which an offset query reads the offsets: computeOffset at
\* any index, computeTotalSize at the last index, computeRange at the
\* clamped prevStartIndex.
QueryReads(c) ==
  UNION ({offsetReads(c, index) : index \in Indexes(c)}
           \cup {offsetReads(c, c._length - 1)}
           \cup {offsetReads(c, min(p, c._length - 1)) : p \in PrevIndexes})

\* C15: no operation reads an offsets entry beyond the watermark, and every
\* entry read exists and holds a written offset, never UNCACHED.
C15_ReadsAreCached ==
  \A r \in QueryReads(cache) :
    /\ 0 <= r
    /\ r <= cache._measuredOffsetIndex
    /\ r < Len(cache._offsets)
    /\ cache._offsets[r + 1] # UNCACHED

\* A store that lost its measured items and grew again (its default was
\* estimated, yet no item is measured), with the watermark above 0: the
\* entry beyond the watermark is UNCACHED, the queries read at and below it.
C15_Witness ==
  /\ cache._length = 3
  /\ cache._defaultItemSize \notin InitSizes
  /\ \A k \in 1 .. 3 : ~touched[k]
  /\ cache._measuredOffsetIndex = 1
  /\ cache._offsets[3] = UNCACHED
  /\ QueryReads(cache) = {0, 1}

\* The viewport sizes of the range claims: none, and one of some items.
RangeViewports == {0, 3}

\* The scroll offsets from below 0 to beyond the content of c.
AllOffsets(c) == (0 - 2) .. TotalSize(c) + 2

\* C16: on every non-empty reachable store, for every scrollOffset (below 0
\* and beyond the total size included), every prevStartIndex >= 0 (stale
\* values >= length included) and every viewportSize >= 0, computeRange
\* returns [start, end] with 0 <= start <= end <= length - 1.
C16_RangeWithinStore ==
  cache._length > 0 =>
    \A x \in AllOffsets(cache), p \in PrevIndexes, v \in RangeViewports :
      LET r == computeRange(cache, x, p, v).ret
      IN /\ 0 <= r[1]
         /\ r[1] <= r[2]
         /\ r[2] <= cache._length - 1

\* A store of two items whose cached offsets no longer agree with its sizes
\* (the default was re-estimated), asked with the stale start index 3: an
\* offset below 0 gives [0, 0], an offset beyond the content gives [1, 1],
\* and some offset with a viewport gives [0, 1].
C16_Witness ==
  /\ cache._length = 2
  /\ ~Consistent(cache)
  /\ 3 \in PrevIndexes
  /\ computeRange(cache, 0 - 2, 3, 0).ret = <<0, 0>>
  /\ computeRange(cache, TotalSize(cache) + 2, 3, 3).ret = <<1, 1>>
  /\ \E x \in AllOffsets(cache) : computeRange(cache, x, 3, 3).ret = <<0, 1>>

\* C17: updateLength keeps the measured or unmeasured size of every surviving
\* item and moves it only as the changed end dictates.  With isPrepend FALSE
\* the size at every index i < min(length, newLength) is unchanged; with
\* isPrepend TRUE and growth by d the size formerly at i is at i + d; with
\* isPrepend TRUE and shrink by d the size formerly at i + d is at i.
\* defaultItemSize is never changed.
C17_SurvivorsKeepSizes ==
  \A newLength \in 0 .. MaxLen, isPrepend \in BOOLEAN :
    LET c2 == updateCacheLength(cache, newLength, isPrepend).cache
        d == newLength - cache._length
    IN /\ c2._defaultItemSize = cache._defaultItemSize
       /\ ~isPrepend =>
            \A i \in 0 .. min(cache._length, newLength) - 1 :
              c2._sizes[i + 1] = cache._sizes[i + 1]
       /\ (isPrepend /\ d >= 0) =>
            \A i \in Indexes(cache) :
              c2._sizes[i + d + 1] = cache._sizes[i + 1]
       /\ (isPrepend /\ d < 0) =>
            \A i \in 0 .. newLength - 1 :
              c2._sizes[i + 1] = cache._sizes[i - d + 1]

\* A store of two items, the first measured and the second not, with a
\* re-estimated default: cutting one item keeps the measured size from the
\* tail and the unmeasured one from the head, and a new item at the head
\* moves both sizes up by one.
C17_Witness ==
  /\ cache._length = 2
  /\ cache._sizes[1] # UNCACHED
  /\ cache._sizes[2] = UNCACHED
  /\ cache._defaultItemSize \notin InitSizes
  /\ updateCacheLength(cache, 1, FALSE).cache._sizes = <<cache._sizes[1]>>
  /\ updateCacheLength(cache, 1, TRUE).cache._sizes = <<UNCACHED>>
  /\ updateCacheLength(cache, 3, TRUE).cache._sizes
       = <<UNCACHED, cache._sizes[1], UNCACHED>>
  /\ updateCacheLength(cache, 3, TRUE).cache._defaultItemSize
       = cache._defaultItemSize

\* C18: setSize(index, size) with size > 0 returns TRUE exactly when the item
\* now at that index has received no setSize since it was created (by create
\* or by a growing updateLength), the items keeping their identity through
\* the index shifts of head insertion and removal; a second setSize of the
\* same item returns FALSE.
C18_InitialReportedOnce ==
  /\ Len(touched) = cache._length
  /\ \A index \in Indexes(cache), size \in Sizes :
       LET r == setItemSize(cache, index, size)
       IN /\ r.ret = ~touched[index + 1]
          /\ \A again \in Sizes : ~setItemSize(r.cache, index, again).ret

\* Three items after changes at the head: the item at index 1 has had its
\* setSize and is not reported again, the items at 0 and 2 around it are new
\* and are reported.
C18_Witness ==
  /\ cache._length = 3
  /\ touched = <<FALSE, TRUE, FALSE>>
  /\ cache._measuredOffsetIndex = 0
  /\ cache._offsets[2] # UNCACHED
  /\ \A size \in Sizes :
       /\ setItemSize(cache, 0, size).ret
       /\ ~setItemSize(cache, 1, size).ret
       /\ setItemSize(cache, 2, size).ret

\* C19: prevStartIndex is only a search hint.  On a non-empty store whose
\* cached offsets agree with its sizes, for every scrollOffset (on an item
\* boundary, on an item midpoint, below 0 or beyond the last item included)
\* and every viewportSize >= 0, computeRange returns the same [start, end]
\* for every prevStartIndex >= 0: the forward and the backward search agree.
C19_PrevIndexIsHint ==
  (cache._length > 0 /\ Consistent(cache)) =>
    \A x \in AllOffsets(cache), v \in Viewports :
      LET expected == computeRange(cache, x, 0, v).ret
      IN \A p \in PrevIndexes \ {0} :
           computeRange(cache, x, p, v).ret = expected

\* A consistent store of three items whose middle item is measured, asked for
\* the offset exactly on the midpoint of that item: the forward search from
\* index 0 and the backward search from index 2 both start the range at 1.
C19_Witness ==
  /\ cache._length = 3
  /\ Consistent(cache)
  /\ cache._sizes[2] # UNCACHED
  /\ cache._sizes[2] # cache._defaultItemSize
  /\ LET x == PrefixSum(cache, 1) + cache._sizes[2] \div 2
     IN /\ 2 * (x - PrefixSum(cache, 1)) = cache._sizes[2]
        /\ x - computeOffset(cache, 0).ret >= 0
        /\ x - computeOffset(cache, 2).ret < 0
        /\ computeRange(cache, x, 0, 3).ret[1] = 1
        /\ computeRange(cache, x, 2, 3).ret[1] = 1

\* C20: lazy equals eager when the default is never re-estimated.  After any
\* sequence of setSize, computeOffset, computeTotalSize, computeRange and
\* updateLength calls (tail and head, grow and shrink), every
\* computeOffset(i) returns the prefix sum of the current effective sizes
\* recomputed from index 0, and computeTotalSize returns the sum of all
\* effective sizes.
C20_LazyEqualsEager ==
  /\ \A i \in Indexes(cache) : computeOffset(cache, i).ret = PrefixSum(cache, i)
  /\ computeTotalSize(cache).ret = TotalSize(cache)

\* Three items after a walk of the offsets and a setSize of item 1 that
\* lowered the watermark: the measured size differs from the default, the
\* offset cached beyond the watermark is stale, and the offset of the last
\* item comes partly from the cached entries and partly from a new walk.
C20_Witness ==
  /\ cache._length = 3
  /\ cache._measuredOffsetIndex = 1
  /\ touched[2]
  /\ \E k \in Indexes(cache) :
       cache._sizes[k + 1] \notin {UNCACHED, cache._defaultItemSize}
  /\ cache._offsets[3] # UNCACHED
  /\ cache._offsets[3] # PrefixSum(cache, 2)
  /\ computeOffset(cache, 2).ret = PrefixSum(cache, 2)
  /\ computeTotalSize(cache).ret = TotalSize(cache)

====
